---- MODULE Spec2Model ----
(***************************************************************************)
(* Two-phase commit of tippers-commit: the TM daemon (manager.py), the     *)
(* coordinator thread (coordinate.py), the participant thread              *)
(* (participate.py), the framed channel (communication.py) and the         *)
(* protocol log (protocol.py).                                             *)
(*                                                                         *)
(* One transaction tid is followed.  Site 0 is the site whose daemon       *)
(* coordinates it, the sites in Parts are the sites statements may be      *)
(* routed to.  A message is modelled by its op code or response code; the  *)
(* payload (tid, statement, node id) is not modelled, a decision message   *)
(* is always about tid.  Every call on a collaborator (log, RM, socket)    *)
(* is modelled by what the handler relies on: log_X_of appends X to the    *)
(* site's STATE_LOG, conn.commit() makes the pending work durable,         *)
(* a remote statement travels on the participant's channel and the reply   *)
(* read from it is the one compared with OK, and the loops over active_map *)
(* visit its entries.  The STATE_LOG the threads append to and the one     *)
(* recovery reads are one log per site.                                    *)
(***************************************************************************)
EXTENDS Naturals, Sequences, FiniteSets

\* ------------------------------------------------------------------ bounds
MaxInserts == 2     \* INSERT_FROM_CLIENT messages the client sends
MaxCrashes == 1     \* crashes of site 0 (daemon, coordinator, sockets)
MaxPeerMsgs == 4    \* messages a stand-alone peer sends to participant threads
MaxAccepts == 1     \* connections without START_TRANSACTION site 0 accepts

Parts == {1, 2}
Sites == {0} \cup Parts

VARIABLES
    \* ---- persistent, per site
    log,         \* [Sites -> Seq]   STATE_LOG records of tid, in append order
    rm,          \* [Sites -> ...]   the RM's view of tid's inserts
    rows,        \* participants in site 0's TRANSACTION_SITE_LOG for tid
    rmPrep,      \* tid is in the prepared list of site 0's RM (tpc_recover)
    \* ---- daemons
    mstate,      \* TransactionManagerThread.state of site 0
    lsock,       \* self.socket of the daemon of site 0 (none|open|closed)
    pmstate,     \* [Parts -> ...]  TransactionManagerThread.state of site p
    child,       \* [Sites -> BOOLEAN]  tid \in child_threads of the site
    \* ---- coordinator thread (site 0)
    cstate,      \* TransactionCoordinatorThread.state ("NONE": no thread)
    cprev,       \* previous_state
    clientMessage, \* history: op code of the last message _active_state read
                 \* from the client ("None": null read, "unread": none yet)
    csock,       \* [Parts -> none|open|closed]  active_map (none: no entry)
    clientSock,  \* self.socket of the coordinator
    toClient,    \* what the coordinator has sent on self.socket, in order
    cphase,      \* position inside the current handler
    vote,        \* [Parts -> ...] result of _poll_participants
    mcTodo,      \* _final_multicast: entries not yet visited
    mcWait,      \* participant whose reply is being read (0: none)
    acked,       \* participants_to_remove
    origin,      \* who built the thread: client | abortable | prepared
    \* ---- connections coordinator <-> site p
    conn,        \* [Parts -> none|listen|thread|dropped] far end of csock[p]
    c2p,         \* [Parts -> Seq] bytes sent on csock[p], unread
    p2c,         \* [Parts -> Seq] bytes sent to csock[p], unread
    \* ---- participant thread (site p)
    pstate,      \* TransactionParticipantThread.state ("NONE": no thread)
    edge,        \* previous_edge_property
    changed,     \* is_socket_changed
    psock,       \* self.socket of the participant
    wphase,      \* position inside _waiting_state
    pprev,       \* previous_state of the participant thread ("None": never set)
    \* ---- environment
    inserts,     \* INSERT_FROM_CLIENT messages sent so far
    crashes,     \* crashes of site 0 so far
    accepted,    \* history: what the daemon of site 0 read first on each
                 \* connection it accepted, START_TRANSACTION left out
    crashedAt,   \* history: what the coordinator had done when site 0 crashed
    peerMsgs,    \* messages sent by a stand-alone peer so far
    sent         \* history: decision messages sent, each with the A/C records
                 \* site 0's log held when it was sent

vars == <<log, rm, rows, rmPrep, mstate, lsock, pmstate, child, cstate, cprev,
          clientMessage, csock, clientSock, toClient, cphase, vote, mcTodo,
          mcWait, acked, conn, c2p, p2c, pstate, edge, changed, psock, wphase,
          pprev, inserts, crashes, crashedAt, sent, origin, peerMsgs,
          accepted>>

siteVars == <<log, rm, rows, rmPrep>>
coordVars == <<cstate, cprev, clientMessage, csock, clientSock, toClient,
               cphase, vote, mcTodo, mcWait, acked, origin>>
connVars == <<conn, c2p, p2c>>
partVars == <<pstate, edge, changed, psock, wphase, pprev>>
envVars == <<inserts, crashes, crashedAt, sent, peerMsgs, accepted>>

\* ----------------------------------------------------------------- helpers
Last(s) == s[Len(s)]
Has(s, x) == \E i \in 1..Len(s) : s[i] = x
Count(s, x) == Cardinality({i \in 1..Len(s) : s[i] = x})
MinOf(S) == CHOOSE x \in S : \A y \in S : x <= y
ActiveMap == {p \in Parts : csock[p] # "none"}

\* ------------------------------------------------- the RM (psycopg2 / Postgres)
\* none: no insert of tid is stored or pending; pending: inserts executed, not
\* committed; committed: inserts durable; deleting: inserts durable, their
\* inverse statements executed and not committed.
RMExecute(r) == IF r = "none" THEN "pending" ELSE r
RMCommit(r) == CASE r = "pending" -> "committed"
                 [] r = "deleting" -> "none"
                 [] OTHER -> r
RMUndo(r) == CASE r = "pending" -> "none"
               [] r = "committed" -> "deleting"
               [] OTHER -> r
RMLost(r) == CASE r = "pending" -> "none"
               [] r = "deleting" -> "committed"
               [] OTHER -> r
\* The insert statements of the WAL executed again (get_redo_for).
RMRedo(r) == CASE r = "none" -> "pending"
               [] r = "deleting" -> "committed"
               [] OTHER -> r

\* ------------------------------------------------ the protocol log (STATE_LOG)
LogAppend(s, x) == [log EXCEPT ![s] = Append(@, x)]

\* GROUP_CONCAT(state) NOT LIKE "%C" AND NOT LIKE "%P" AND NOT LIKE "%A": a LIKE
\* pattern with one leading % matches a history that ENDS with the letter.
GetAbortable(h) == h # <<>> /\ Last(h) \notin {"C", "P", "A"}

\* ------------------------------------------- the channel (GenericSocketUser)
\* close(client_socket) closes the socket it is given and self.socket.  The
\* mutant leaves the socket as it is.
CloseSelfLeavesOpen(sock) == sock

CloseSelf(sock) == IF sock = "open" THEN "closed" ELSE sock

\* A send succeeds when both ends of the connection are open.
CoordSendOK(p, socks, cn) ==
    socks[p] = "open" /\ (cn[p] = "listen" \/ (cn[p] = "thread" /\ psock[p] = "open"))
PartSendOK(p) == psock[p] = "open" /\ conn[p] = "thread" /\ csock[p] = "open"

\* read_message returns the next message when one is there; a read that finds
\* none (the peer is gone, or silent until the timeout) returns None.
CoordCanRead(p) == csock[p] = "open" /\ p2c[p] # <<>>
PartCanRead(p) == psock[p] = "open" /\ conn[p] = "thread" /\ c2p[p] # <<>>

\* ------------------------------------------------------------ initial state
\* The daemons are constructed (site 0 in RECOVERY), no thread exists.  The
\* protocol database of site 0 is either empty, or holds what an earlier run
\* of the daemon left through the ProtocolDatabase interface: tid initialized
\* (I) with the participants added to TRANSACTION_SITE_LOG, or tid initialized
\* and prepared (I, P) with the RM listing it in tpc_recover().
Constructed ==
    /\ rm = [s \in Sites |-> "none"]
    /\ mstate = "RECOVERY"
    /\ lsock = "none"
    /\ accepted = <<>>
    /\ pmstate = [p \in Parts |-> "ACTIVE"]
    /\ child = [s \in Sites |-> FALSE]
    /\ cstate = "NONE"
    /\ cprev = "None"
    /\ clientMessage = "unread"
    /\ csock = [p \in Parts |-> "none"]
    /\ clientSock = "none"
    /\ toClient = <<>>
    /\ cphase = "start"
    /\ vote = [p \in Parts |-> "none"]
    /\ mcTodo = {}
    /\ mcWait = 0
    /\ acked = {}
    /\ conn = [p \in Parts |-> "none"]
    /\ c2p = [p \in Parts |-> <<>>]
    /\ p2c = [p \in Parts |-> <<>>]
    /\ pstate = [p \in Parts |-> "NONE"]
    /\ edge = [p \in Parts |-> "None"]
    /\ changed = [p \in Parts |-> FALSE]
    /\ psock = [p \in Parts |-> "none"]
    /\ wphase = [p \in Parts |-> "enter"]
    /\ pprev = [p \in Parts |-> "None"]
    /\ inserts = 0
    /\ crashes = 0
    /\ crashedAt = "none"
    /\ sent = {}
    /\ peerMsgs = 0
    /\ origin = "none"

Init ==
    /\ \E left \in {"nothing", "initialized", "prepared"}, r \in SUBSET Parts :
          /\ log = [s \in Sites |->
                      CASE s = 0 /\ left = "initialized" -> <<"I">>
                        [] s = 0 /\ left = "prepared" -> <<"I", "P">>
                        [] OTHER -> <<>>]
          /\ rows = IF left = "nothing" THEN {} ELSE r
          /\ rmPrep = (left = "prepared")
    /\ Constructed

\* ------------------------------------------------------ the daemon of site 0
\* _abort_transaction / _recover_transaction, coordinator role: a coordinator
\* thread is built with client socket None, its state is set, and its active
\* map gets a connected socket for every participant the log names.
RecoveredState == IF rmPrep THEN "POLLING"
                  ELSE IF GetAbortable(log[0]) THEN "ABORT" ELSE "NONE"

\* _recovery_state: abort every abortable transaction, recover every
\* transaction the RM holds prepared, then move to INITIALIZE.
DaemonRecovery ==
    /\ mstate = "RECOVERY"
    /\ mstate' = "INITIALIZE"
    /\ cstate' = RecoveredState
    /\ origin' = CASE RecoveredState = "POLLING" -> "prepared"
                   [] RecoveredState = "ABORT" -> "abortable"
                   [] OTHER -> origin
    /\ child' = [child EXCEPT ![0] = RecoveredState # "NONE"]
    /\ csock' = [p \in Parts |->
                   IF RecoveredState # "NONE" /\ p \in rows THEN "open" ELSE "none"]
    /\ conn' = [p \in Parts |->
                   IF RecoveredState # "NONE" /\ p \in rows THEN "listen" ELSE conn[p]]
    /\ UNCHANGED <<siteVars, lsock, pmstate, cprev, clientMessage, clientSock,
                   toClient, cphase, vote, mcTodo, mcWait, acked, c2p, p2c,
                   partVars, envVars>>

\* _initialize_state: the server socket is bound.
DaemonInitialize ==
    /\ mstate = "INITIALIZE"
    /\ mstate' = "ACTIVE"
    /\ lsock' = "open"
    /\ UNCHANGED <<siteVars, pmstate, child, coordVars, connVars, partVars,
                   envVars>>

\* _active_state, START_TRANSACTION: a coordinator thread is spawned for the
\* new tid with the client's socket.
DaemonStart ==
    /\ mstate = "ACTIVE"
    /\ lsock = "open"
    /\ log[0] = <<>>
    /\ ~child[0]
    /\ child' = [child EXCEPT ![0] = TRUE]
    /\ cstate' = "INITIALIZE"
    /\ clientSock' = "open"
    /\ toClient' = toClient
    /\ origin' = "client"
    /\ UNCHANGED <<siteVars, mstate, lsock, pmstate, cprev, clientMessage,
                   csock, cphase, vote, mcTodo, mcWait, acked, connVars,
                   partVars, envVars>>

\* _active_state on what read_message returns for an accepted connection:
\* SHUTDOWN moves the daemon to FINISHED; NO_OP and an op code outside the
\* dispatch table leave it ACTIVE; None is subscripted without a test, the
\* TypeError leaves _active_state and run(), and the daemon thread ends.
ManagerNextStopsOnNoOp(m) ==
    CASE m = "None" -> "CRASHED"
      [] m \in {"SHUTDOWN", "NO_OP"} -> "FINISHED"
      [] OTHER -> "ACTIVE"

ManagerNext(m) ==
    CASE m = "None" -> "CRASHED"
      [] m = "SHUTDOWN" -> "FINISHED"
      [] OTHER -> "ACTIVE"

\* What an accepted connection may deliver first, START_TRANSACTION left out:
\* NO_OP, SHUTDOWN, an op code outside the dispatch table, or nothing.
AcceptOps == {"NO_OP", "SHUTDOWN", "PREPARE_TO_COMMIT", "None"}

\* _active_state of the daemon of site 0 for such a connection.  A null read
\* has closed the accepted socket and, through close(), the daemon's own
\* socket; after FINISHED run() calls close() as well.
DaemonAccept(m) ==
    /\ mstate = "ACTIVE"
    /\ lsock = "open"
    /\ Len(accepted) < MaxAccepts
    /\ accepted' = Append(accepted, m)
    /\ mstate' = ManagerNext(m)
    /\ lsock' = IF m = "None" \/ ManagerNext(m) = "FINISHED" THEN "closed" ELSE lsock
    /\ UNCHANGED <<siteVars, pmstate, child, coordVars, connVars, partVars,
                   inserts, crashes, crashedAt, sent, peerMsgs>>

\* ------------------------------------------------------ the coordinator thread
\* _initialize_state: the transaction is written to the log.
CoordInitialize ==
    /\ cstate = "INITIALIZE"
    /\ log' = LogAppend(0, "I")
    /\ cstate' = "ACTIVE"
    /\ cphase' = "read"
    /\ UNCHANGED <<rm, rows, rmPrep, mstate, lsock, pmstate, child, cprev,
                   clientMessage, csock, clientSock, toClient, vote, mcTodo,
                   mcWait, acked, origin, connVars, partVars, envVars>>

\* _active_state: the state the handler leaves for client message m, where ok
\* tells whether the statement (INSERT_FROM_CLIENT) or conn.commit()
\* (COMMIT_TRANSACTION) succeeded.
ActiveNextCommitsOnNull(m, ok) ==
    CASE m = "None" -> "POLLING"
      [] m = "INSERT_FROM_CLIENT" -> IF ok THEN "ACTIVE" ELSE "ABORT"
      [] m = "ABORT_TRANSACTION" -> "ABORT"
      [] m = "COMMIT_TRANSACTION" -> IF ok THEN "POLLING" ELSE "ABORT"
      [] OTHER -> "ACTIVE"

ActiveNext(m, ok) ==
    CASE m = "None" -> "ABORT"
      [] m = "INSERT_FROM_CLIENT" -> IF ok THEN "ACTIVE" ELSE "ABORT"
      [] m = "ABORT_TRANSACTION" -> "ABORT"
      [] m = "COMMIT_TRANSACTION" -> IF ok THEN "POLLING" ELSE "ABORT"
      [] OTHER -> "ACTIVE"

\* _active_state, client_message is None: the client is gone or silent.
CoordActiveNone ==
    /\ cstate = "ACTIVE" /\ cphase = "read"
    /\ clientMessage' = "None"
    /\ clientSock' = CloseSelf(clientSock)
    /\ toClient' = toClient
    /\ cstate' = ActiveNext("None", FALSE)
    /\ cphase' = "start"
    /\ UNCHANGED <<siteVars, mstate, lsock, pmstate, child, cprev, csock, vote,
                   mcTodo, mcWait, acked, origin, connVars, partVars, envVars>>

\* _active_state, INSERT_FROM_CLIENT routed to this site: _execute_statement
\* runs the statement and answers OK, or fails and the state becomes ABORT.
CoordActiveInsertLocal ==
    /\ cstate = "ACTIVE" /\ cphase = "read"
    /\ clientSock = "open"
    /\ inserts < MaxInserts
    /\ inserts' = inserts + 1
    /\ clientMessage' = "INSERT_FROM_CLIENT"
    /\ \E ok \in BOOLEAN :
          /\ rm' = IF ok THEN [rm EXCEPT ![0] = RMExecute(@)] ELSE rm
          /\ cstate' = ActiveNext("INSERT_FROM_CLIENT", ok)
          /\ cphase' = IF ok THEN "read" ELSE "start"
          /\ toClient' = IF ok THEN Append(toClient, "OK") ELSE toClient
    /\ UNCHANGED <<log, rows, rmPrep, mstate, lsock, pmstate, child, cprev,
                   csock, clientSock, vote, mcTodo, mcWait, acked, origin,
                   connVars, partVars, crashes, crashedAt, accepted, sent,
                   peerMsgs>>

\* _active_state, INSERT_FROM_CLIENT routed to site p: a participant not yet in
\* the active map is connected and sent INITIATE_PARTICIPANT, the statement is
\* sent as INSERT_FROM_COORDINATOR, and the thread reads the reply.
CoordActiveInsertRemote(p) ==
    /\ cstate = "ACTIVE" /\ cphase = "read"
    /\ clientSock = "open"
    /\ inserts < MaxInserts
    /\ inserts' = inserts + 1
    /\ LET new == csock[p] = "none"
           socks == IF new THEN [csock EXCEPT ![p] = "open"] ELSE csock
           cn == IF new THEN [conn EXCEPT ![p] = "listen"] ELSE conn
           q == IF new THEN [c2p EXCEPT ![p] = <<"INITIATE_PARTICIPANT">>] ELSE c2p
           ok == CoordSendOK(p, socks, cn)
       IN /\ conn' = cn
          /\ c2p' = IF ok THEN [q EXCEPT ![p] = Append(@, "INSERT_FROM_COORDINATOR")]
                    ELSE q
          /\ csock' = IF ok THEN socks ELSE [socks EXCEPT ![p] = "closed"]
          /\ clientSock' = IF ok THEN clientSock ELSE CloseSelf(clientSock)
          /\ toClient' = toClient
          /\ p2c' = IF new THEN [p2c EXCEPT ![p] = <<>>] ELSE p2c
    /\ cphase' = "ins"
    /\ mcWait' = p
    /\ clientMessage' = "INSERT_FROM_CLIENT"
    /\ UNCHANGED <<siteVars, mstate, lsock, pmstate, child, cstate, cprev,
                   vote, mcTodo, acked, origin, partVars, crashes, crashedAt,
                   accepted, sent, peerMsgs>>

\* _execute_statement, the read of the participant's reply: OK keeps the
\* coordinator ACTIVE, anything else (None included) moves it to ABORT.
CoordActiveInsertReply ==
    /\ cstate = "ACTIVE" /\ cphase = "ins"
    /\ LET p == mcWait
           got == CoordCanRead(p)
           resp == IF got THEN Head(p2c[p]) ELSE "None"
       IN /\ p2c' = IF got THEN [p2c EXCEPT ![p] = Tail(@)] ELSE p2c
          /\ csock' = IF got THEN csock ELSE [csock EXCEPT ![p] = "closed"]
          /\ clientSock' = IF got THEN clientSock ELSE CloseSelf(clientSock)
          /\ toClient' = toClient
          /\ cstate' = ActiveNext("INSERT_FROM_CLIENT", resp = "OK")
          /\ cphase' = IF resp = "OK" THEN "read" ELSE "start"
    /\ mcWait' = 0
    /\ UNCHANGED <<siteVars, mstate, lsock, pmstate, child, cprev,
                   clientMessage, vote, mcTodo, acked, origin, conn, c2p,
                   partVars, envVars>>

\* _active_state, ABORT_TRANSACTION.
CoordActiveAbort ==
    /\ cstate = "ACTIVE" /\ cphase = "read"
    /\ clientSock = "open"
    /\ clientMessage' = "ABORT_TRANSACTION"
    /\ cstate' = ActiveNext("ABORT_TRANSACTION", FALSE)
    /\ cphase' = "start"
    /\ UNCHANGED <<siteVars, mstate, lsock, pmstate, child, cprev, csock,
                   clientSock, toClient, vote, mcTodo, mcWait, acked, origin,
                   connVars, partVars, envVars>>

\* _active_state, COMMIT_TRANSACTION: conn.commit() is called first.  When it
\* raises, A is logged and the state becomes ABORT.
CoordActiveCommit ==
    /\ cstate = "ACTIVE" /\ cphase = "read"
    /\ clientSock = "open"
    /\ \E ok \in BOOLEAN :
          /\ rm' = IF ok THEN [rm EXCEPT ![0] = RMCommit(@)] ELSE rm
          /\ log' = IF ok THEN log ELSE LogAppend(0, "A")
          /\ cstate' = IF ok THEN "ACTIVE" ELSE ActiveNext("COMMIT_TRANSACTION", FALSE)
          /\ cphase' = IF ok THEN "rmok" ELSE "start"
    /\ clientMessage' = "COMMIT_TRANSACTION"
    /\ UNCHANGED <<rows, rmPrep, mstate, lsock, pmstate, child, cprev, csock,
                   clientSock, toClient, vote, mcTodo, mcWait, acked, origin,
                   connVars, partVars, envVars>>

\* _active_state, COMMIT_TRANSACTION after conn.commit() returned: C is logged
\* and the state becomes POLLING.
CoordActiveLogCommit ==
    /\ cstate = "ACTIVE" /\ cphase = "rmok"
    /\ log' = LogAppend(0, "C")
    /\ cstate' = ActiveNext("COMMIT_TRANSACTION", TRUE)
    /\ cphase' = "start"
    /\ UNCHANGED <<rm, rows, rmPrep, mstate, lsock, pmstate, child, cprev,
                   clientMessage, csock, clientSock, toClient, vote, mcTodo,
                   mcWait, acked, origin, connVars, partVars, envVars>>

\* _poll_participants, first half: PREPARE_TO_COMMIT is sent to participant p;
\* a failed send makes the poll of p False.
CoordPollSend(p) ==
    /\ cstate = "POLLING"
    /\ p \in ActiveMap
    /\ vote[p] = "none"
    /\ LET ok == CoordSendOK(p, csock, conn)
       IN /\ c2p' = IF ok THEN [c2p EXCEPT ![p] = Append(@, "PREPARE_TO_COMMIT")]
                    ELSE c2p
          /\ csock' = IF ok THEN csock ELSE [csock EXCEPT ![p] = "closed"]
          /\ clientSock' = IF ok THEN clientSock ELSE CloseSelf(clientSock)
          /\ toClient' = toClient
          /\ vote' = [vote EXCEPT ![p] = IF ok THEN "sent" ELSE "SendFail"]
    /\ UNCHANGED <<siteVars, mstate, lsock, pmstate, child, cstate, cprev,
                   clientMessage, cphase, mcTodo, mcWait, acked, origin, conn,
                   p2c, partVars, envVars>>

\* _poll_participants, second half: the reply of participant p is read.
CoordPollReply(p) ==
    /\ cstate = "POLLING"
    /\ vote[p] = "sent"
    /\ LET got == CoordCanRead(p)
       IN /\ vote' = [vote EXCEPT ![p] = IF got THEN Head(p2c[p]) ELSE "None"]
          /\ p2c' = IF got THEN [p2c EXCEPT ![p] = Tail(@)] ELSE p2c
          /\ csock' = IF got THEN csock ELSE [csock EXCEPT ![p] = "closed"]
          /\ clientSock' = IF got THEN clientSock ELSE CloseSelf(clientSock)
          /\ toClient' = toClient
    /\ UNCHANGED <<siteVars, mstate, lsock, pmstate, child, cstate, cprev,
                   clientMessage, cphase, mcTodo, mcWait, acked, origin, conn,
                   c2p, partVars, envVars>>

\* any(is_successful).
SomeSuccessful(votes) ==
    \E p \in ActiveMap : votes[p] = "PREPARED_FROM_PARTICIPANT"

\* all(is_successful): a poll is successful when the reply is
\* PREPARED_FROM_PARTICIPANT.
AllSuccessful(votes) ==
    \A p \in ActiveMap : votes[p] = "PREPARED_FROM_PARTICIPANT"

\* thread_pool.map returns when _poll_participants has returned for every
\* entry of the active map.  The mutant returns once every PREPARE_TO_COMMIT
\* is sent.
AllSent(votes) ==
    \A p \in ActiveMap : votes[p] # "none"

AllPolled(votes) ==
    \A p \in ActiveMap : votes[p] \notin {"none", "sent"}

\* _polling_state, after the pool has polled every entry of the active map.
CoordPollDecide ==
    /\ cstate = "POLLING"
    /\ AllPolled(vote)
    /\ cstate' = IF AllSuccessful(vote) THEN "COMMIT" ELSE "ABORT"
    /\ cphase' = "start"
    /\ UNCHANGED <<siteVars, mstate, lsock, pmstate, child, cprev,
                   clientMessage, csock, clientSock, toClient, vote, mcTodo,
                   mcWait, acked, origin, connVars, partVars, envVars>>

\* The op code _final_multicast is called with: COMMIT_FROM_COORDINATOR in
\* COMMIT, ROLLBACK_FROM_COORDINATOR in ABORT, and in WAITING the one
\* previous_state selects.
FinalOp ==
    CASE cstate = "COMMIT" -> "COMMIT_FROM_COORDINATOR"
      [] cstate = "ABORT" -> "ROLLBACK_FROM_COORDINATOR"
      [] OTHER -> IF cprev = "COMMIT" THEN "COMMIT_FROM_COORDINATOR"
                  ELSE "ROLLBACK_FROM_COORDINATOR"

\* The state previous_state is set to when the multicast of COMMIT or ABORT
\* leaves participants in the active map.
PreviousOf(state) == "COMMIT"

\* _final_multicast from the entry it has reached.  todo: entries not yet
\* visited; ackd: participants_to_remove; socks, cli, cn, q, r: the sockets and
\* channels as the handler has left them so far.  With an entry left, the op is
\* sent to it and the thread reads its reply.  With none left, the
\* acknowledged participants are removed and the handler that called the
\* multicast picks the next state.
FinalMulticast(todo, ackd, socks, cli, cn, q, r) ==
    IF todo = {}
    THEN LET left == {p \in Parts : socks[p] # "none"} \ ackd
         IN /\ csock' = [p \in Parts |-> IF p \in ackd THEN "none" ELSE socks[p]]
            /\ conn' = [p \in Parts |-> IF p \in ackd THEN "none" ELSE cn[p]]
            /\ c2p' = [p \in Parts |-> IF p \in ackd THEN <<>> ELSE q[p]]
            /\ p2c' = [p \in Parts |-> IF p \in ackd THEN <<>> ELSE r[p]]
            /\ clientSock' = cli
            /\ toClient' = toClient
            /\ cstate' = IF left = {} THEN "FINISHED" ELSE "WAITING"
            /\ cprev' = IF left # {} /\ cstate # "WAITING"
                        THEN PreviousOf(cstate) ELSE cprev
            /\ cphase' = "start"
            /\ mcTodo' = {}
            /\ mcWait' = 0
            /\ acked' = {}
            /\ sent' = sent
            /\ clientMessage' = clientMessage
    ELSE LET p == MinOf(todo)
             ok == CoordSendOK(p, socks, cn)
         IN /\ csock' = IF ok THEN socks ELSE [socks EXCEPT ![p] = "closed"]
            /\ clientSock' = IF ok THEN cli ELSE CloseSelf(cli)
            /\ toClient' = toClient
            /\ c2p' = IF ok THEN [q EXCEPT ![p] = Append(@, FinalOp)] ELSE q
            /\ conn' = cn
            /\ p2c' = r
            /\ mcTodo' = todo \ {p}
            /\ mcWait' = p
            /\ acked' = ackd
            /\ cphase' = "mcast"
            /\ sent' = IF ok THEN sent \cup {<<FinalOp, Has(log'[0], "A"),
                                               Has(log'[0], "C")>>}
                       ELSE sent
            /\ UNCHANGED <<cstate, cprev, clientMessage>>

\* _commit_state: C is logged, then COMMIT_FROM_COORDINATOR is multicast.
CoordCommit ==
    /\ cstate = "COMMIT" /\ cphase = "start"
    /\ log' = LogAppend(0, "C")
    /\ FinalMulticast(ActiveMap, {}, csock, clientSock, conn, c2p, p2c)
    /\ UNCHANGED <<rm, rows, rmPrep, mstate, lsock, pmstate, child, vote,
                   origin, partVars, inserts, crashes, crashedAt, accepted,
                   peerMsgs>>

\* _abort_state: the statements of the WAL are undone, A is logged, then
\* ROLLBACK_FROM_COORDINATOR is multicast.
CoordAbort ==
    /\ cstate = "ABORT" /\ cphase = "start"
    /\ rm' = [rm EXCEPT ![0] = RMUndo(@)]
    /\ log' = LogAppend(0, "A")
    /\ FinalMulticast(ActiveMap, {}, csock, clientSock, conn, c2p, p2c)
    /\ UNCHANGED <<rows, rmPrep, mstate, lsock, pmstate, child, vote, origin,
                   partVars, inserts, crashes, crashedAt, accepted, peerMsgs>>

\* _waiting_state, one round of the loop: every participant left in the
\* active map gets a new socket connected to its daemon, then the decision is
\* multicast again.
CoordWaiting ==
    /\ cstate = "WAITING" /\ cphase = "start"
    /\ log' = log
    /\ FinalMulticast(ActiveMap, {},
          [p \in Parts |-> IF p \in ActiveMap THEN "open" ELSE "none"],
          clientSock,
          [p \in Parts |-> IF p \in ActiveMap THEN "listen" ELSE conn[p]],
          [p \in Parts |-> IF p \in ActiveMap THEN <<>> ELSE c2p[p]],
          [p \in Parts |-> IF p \in ActiveMap THEN <<>> ELSE p2c[p]])
    /\ UNCHANGED <<rm, rows, rmPrep, mstate, lsock, pmstate, child, vote,
                   origin, partVars, inserts, crashes, crashedAt, accepted,
                   peerMsgs>>

\* _final_multicast, the test on what was read from the entry: the reply is
\* there and is ACKNOWLEDGE_END.  The mutant also accepts a read that
\* returned None.
AckOrNone(resp) ==
    resp \in {"None", "ACKNOWLEDGE_END"}

Acknowledged(resp) ==
    resp # "None" /\ resp = "ACKNOWLEDGE_END"

\* _final_multicast, the read of the reply of the entry just sent to:
\* ACKNOWLEDGE_END puts the participant on the removal list.
CoordMulticastReply ==
    /\ cstate \in {"COMMIT", "ABORT", "WAITING"} /\ cphase = "mcast"
    /\ log' = log
    /\ LET p == mcWait
           got == CoordCanRead(p)
           resp == IF got THEN Head(p2c[p]) ELSE "None"
       IN FinalMulticast(mcTodo,
             IF Acknowledged(resp) THEN acked \cup {p} ELSE acked,
             IF got THEN csock ELSE [csock EXCEPT ![p] = "closed"],
             IF got THEN clientSock ELSE CloseSelf(clientSock),
             conn, c2p,
             IF got THEN [p2c EXCEPT ![p] = Tail(@)] ELSE p2c)
    /\ UNCHANGED <<rm, rows, rmPrep, mstate, lsock, pmstate, child, vote,
                   origin, partVars, inserts, crashes, crashedAt, accepted,
                   peerMsgs>>

\* run, after the loop: _finished_state logs D and closes the thread's socket.
CoordFinished ==
    /\ cstate = "FINISHED"
    /\ log' = LogAppend(0, "D")
    /\ clientSock' = CloseSelf(clientSock)
    /\ toClient' = toClient
    /\ cstate' = "EXITED"
    /\ UNCHANGED <<rm, rows, rmPrep, mstate, lsock, pmstate, child, cprev,
                   clientMessage, csock, cphase, vote, mcTodo, mcWait, acked,
                   origin, connVars, partVars, envVars>>

\* _active_state, the test on a decision message: the transaction it names has
\* no entry in child_threads.  The mutant answers only the commit decision.
NoKnowledgeOfCommitOnly(m, known) ==
    m = "COMMIT_FROM_COORDINATOR" /\ ~known

NoKnowledge(m, known) ==
    m \in {"COMMIT_FROM_COORDINATOR", "ROLLBACK_FROM_COORDINATOR"} /\ ~known

\* ------------------------------------------- the daemon of a participant site
\* _active_state of the daemon of site p, for the one message it reads from a
\* connection it accepted.  INITIATE_PARTICIPANT spawns a participant thread
\* on the connection.  COMMIT_FROM_COORDINATOR / ROLLBACK_FROM_COORDINATOR for
\* a tid that is not in child_threads is answered with ACKNOWLEDGE_END and the
\* connection is closed; for a known tid the connection is injected into the
\* thread.  After any other message the daemon goes back to accept.
Dispatch(p) ==
    /\ pmstate[p] = "ACTIVE"
    /\ conn[p] = "listen"
    /\ c2p[p] # <<>>
    /\ LET m == Head(c2p[p])
           decision == m \in {"COMMIT_FROM_COORDINATOR", "ROLLBACK_FROM_COORDINATOR"}
           spawn == m = "INITIATE_PARTICIPANT"
           inject == decision /\ child[p]
       IN /\ child' = IF spawn THEN [child EXCEPT ![p] = TRUE] ELSE child
          /\ pstate' = IF spawn THEN [pstate EXCEPT ![p] = "INITIALIZE"] ELSE pstate
          /\ edge' = IF spawn THEN [edge EXCEPT ![p] = "None"] ELSE edge
          /\ wphase' = IF spawn THEN [wphase EXCEPT ![p] = "enter"] ELSE wphase
          /\ pprev' = IF spawn THEN [pprev EXCEPT ![p] = "None"] ELSE pprev
          /\ changed' = CASE spawn -> [changed EXCEPT ![p] = FALSE]
                          [] inject -> [changed EXCEPT ![p] = TRUE]
                          [] OTHER -> changed
          /\ psock' = IF spawn \/ inject THEN [psock EXCEPT ![p] = "open"] ELSE psock
          /\ conn' = [conn EXCEPT ![p] = IF spawn \/ inject THEN "thread" ELSE "dropped"]
          /\ c2p' = [c2p EXCEPT ![p] = IF spawn \/ inject THEN Tail(@) ELSE <<>>]
          /\ p2c' = IF NoKnowledge(m, child[p])
                    THEN [p2c EXCEPT ![p] = Append(@, "ACKNOWLEDGE_END")] ELSE p2c
    /\ UNCHANGED <<siteVars, mstate, lsock, pmstate, coordVars, envVars>>

\* ------------------------------------------------------ the participant thread
\* _initialize_state.
PartInitialize(p) ==
    /\ pstate[p] = "INITIALIZE"
    /\ log' = LogAppend(p, "I")
    /\ pstate' = [pstate EXCEPT ![p] = "ACTIVE"]
    /\ UNCHANGED <<rm, rows, rmPrep, mstate, lsock, pmstate, child, coordVars,
                   connVars, edge, changed, psock, wphase, envVars, pprev>>

\* _active_state, PREPARE_TO_COMMIT: the answer sent after the RM call, by
\* whether the call returned (ok) or raised.  The mutant answers
\* PREPARED_FROM_PARTICIPANT either way.
PrepareReplyAlwaysPrepared(ok) ==
    "PREPARED_FROM_PARTICIPANT"

PrepareReply(ok) ==
    IF ok THEN "PREPARED_FROM_PARTICIPANT" ELSE "ABORT_FROM_PARTICIPANT"

\* _active_state.  A null read moves to ABORT.  INSERT_FROM_COORDINATOR runs
\* the statement and answers OK, or fails and moves to ABORT.
\* PREPARE_TO_COMMIT calls conn.commit(), logs C, answers
\* PREPARED_FROM_PARTICIPANT and moves to PREPARED; when the RM raises it logs
\* A, answers ABORT_FROM_PARTICIPANT and moves to ABORT.  ABORT_TRANSACTION
\* answers ABORT_FROM_PARTICIPANT and moves to ABORT.  Any other message is
\* ignored.  A failed send of the answer is ignored.
PartActive(p) ==
    /\ pstate[p] = "ACTIVE"
    /\ \E ok \in BOOLEAN :
       LET got == PartCanRead(p)
           m == IF got THEN Head(c2p[p]) ELSE "None"
           st == CASE m = "None" -> "ABORT"
                   [] m = "INSERT_FROM_COORDINATOR" -> IF ok THEN "ACTIVE" ELSE "ABORT"
                   [] m = "PREPARE_TO_COMMIT" -> IF ok THEN "PREPARED" ELSE "ABORT"
                   [] m = "ABORT_TRANSACTION" -> "ABORT"
                   [] OTHER -> "ACTIVE"
           out == CASE m = "INSERT_FROM_COORDINATOR" /\ ok -> "OK"
                    [] m = "PREPARE_TO_COMMIT" -> PrepareReply(ok)
                    [] m = "ABORT_TRANSACTION" -> "ABORT_FROM_PARTICIPANT"
                    [] OTHER -> "None"
       IN /\ c2p' = IF got THEN [c2p EXCEPT ![p] = Tail(@)] ELSE c2p
          /\ rm' = CASE m = "INSERT_FROM_COORDINATOR" /\ ok -> [rm EXCEPT ![p] = RMExecute(@)]
                     [] m = "PREPARE_TO_COMMIT" /\ ok -> [rm EXCEPT ![p] = RMCommit(@)]
                     [] OTHER -> rm
          /\ log' = IF m = "PREPARE_TO_COMMIT"
                    THEN LogAppend(p, IF ok THEN "C" ELSE "A") ELSE log
          /\ p2c' = IF out # "None" /\ PartSendOK(p)
                    THEN [p2c EXCEPT ![p] = Append(@, out)] ELSE p2c
          /\ psock' = IF ~got \/ (out # "None" /\ ~PartSendOK(p))
                      THEN [psock EXCEPT ![p] = CloseSelf(@)] ELSE psock
          /\ pstate' = [pstate EXCEPT ![p] = st]
    /\ UNCHANGED <<rows, rmPrep, mstate, lsock, pmstate, child, coordVars,
                   conn, edge, changed, wphase, envVars, pprev>>

\* The state _prepared_state moves to on message m ("None": a null read).
PreparedNext(m) ==
    CASE m = "None" -> "WAITING"
      [] m = "COMMIT_TRANSACTION" -> "COMMIT"
      [] m = "ABORT_TRANSACTION" -> "ABORT"
      [] OTHER -> "PREPARED"

\* _prepared_state.  A null read moves to WAITING with previous_edge_property
\* None.
PartPrepared(p) ==
    /\ pstate[p] = "PREPARED"
    /\ LET got == PartCanRead(p)
           m == IF got THEN Head(c2p[p]) ELSE "None"
       IN /\ c2p' = IF got THEN [c2p EXCEPT ![p] = Tail(@)] ELSE c2p
          /\ psock' = IF got THEN psock ELSE [psock EXCEPT ![p] = CloseSelf(@)]
          /\ edge' = IF got THEN edge ELSE [edge EXCEPT ![p] = "None"]
          /\ pstate' = [pstate EXCEPT ![p] = PreparedNext(m)]
    /\ UNCHANGED <<siteVars, mstate, lsock, pmstate, child, coordVars, conn,
                   p2c, changed, wphase, envVars, pprev>>

\* _abort_state: the statements of the WAL are undone.  A thread whose
\* previous_state is RECOVERY then moves to FINISHED at once, sending nothing
\* and committing nothing.  Otherwise ACKNOWLEDGE_END is sent through
\* _send_edge; _send_edge returns a boolean for a response code, never None,
\* so the handler always releases its resources and moves to FINISHED, and a
\* failed send leaves previous_edge_property set.
PartAbort(p) ==
    /\ pstate[p] = "ABORT"
    /\ LET early == pprev[p] = "RECOVERY"
           ok == ~early /\ PartSendOK(p)
       IN /\ rm' = [rm EXCEPT ![p] = IF early THEN RMUndo(@) ELSE RMCommit(RMUndo(@))]
          /\ p2c' = IF ok THEN [p2c EXCEPT ![p] = Append(@, "ACKNOWLEDGE_END")]
                    ELSE p2c
          /\ edge' = IF early \/ ok THEN edge
                     ELSE [edge EXCEPT ![p] = "ACKNOWLEDGE_END"]
          /\ psock' = IF early THEN psock ELSE [psock EXCEPT ![p] = CloseSelf(@)]
    /\ pstate' = [pstate EXCEPT ![p] = "FINISHED"]
    /\ UNCHANGED <<log, rows, rmPrep, mstate, lsock, pmstate, child, coordVars,
                   conn, c2p, changed, wphase, envVars, pprev>>

\* _commit_state: C is logged and ACKNOWLEDGE_END is sent through _send_edge.
\* A failed send moves to WAITING with previous_edge_property set.
PartCommit(p) ==
    /\ pstate[p] = "COMMIT"
    /\ log' = LogAppend(p, "C")
    /\ rm' = IF PartSendOK(p) THEN [rm EXCEPT ![p] = RMCommit(@)] ELSE rm
    /\ p2c' = IF PartSendOK(p) THEN [p2c EXCEPT ![p] = Append(@, "ACKNOWLEDGE_END")]
              ELSE p2c
    /\ edge' = IF PartSendOK(p) THEN edge ELSE [edge EXCEPT ![p] = "ACKNOWLEDGE_END"]
    /\ psock' = [psock EXCEPT ![p] = CloseSelf(@)]
    /\ pstate' = [pstate EXCEPT ![p] = IF PartSendOK(p) THEN "FINISHED" ELSE "WAITING"]
    /\ UNCHANGED <<rows, rmPrep, mstate, lsock, pmstate, child, coordVars,
                   conn, c2p, changed, wphase, envVars, pprev>>

\* _waiting_state, first statement: the socket is closed.
PartWaitingClose(p) ==
    /\ pstate[p] = "WAITING" /\ wphase[p] = "enter"
    /\ psock' = [psock EXCEPT ![p] = CloseSelf(@)]
    /\ wphase' = [wphase EXCEPT ![p] = "blocked"]
    /\ UNCHANGED <<siteVars, mstate, lsock, pmstate, child, coordVars,
                   connVars, pstate, edge, changed, envVars, pprev>>

\* _waiting_state, once is_socket_changed is set: the send that failed is
\* repeated through _send_edge.  For a response code, success releases the
\* resources and moves to FINISHED and failure stays in WAITING.  For an op
\* code (TRANSACTION_STATUS) a failed send stays in WAITING and after a
\* successful one the thread reads the reply.  With no send to repeat the
\* state becomes PREPARED.  is_socket_changed is not reset.
PartWaitingResume(p) ==
    /\ pstate[p] = "WAITING" /\ wphase[p] = "blocked"
    /\ changed[p]
    /\ LET repeat == edge[p] # "None"
           isOp == edge[p] = "TRANSACTION_STATUS"
           sendOK == repeat /\ PartSendOK(p)
           ok == sendOK /\ ~isOp
       IN /\ p2c' = IF sendOK THEN [p2c EXCEPT ![p] = Append(@, edge[p])] ELSE p2c
          /\ rm' = IF ok THEN [rm EXCEPT ![p] = RMCommit(@)] ELSE rm
          /\ psock' = IF repeat /\ ~(sendOK /\ isOp)
                      THEN [psock EXCEPT ![p] = CloseSelf(@)] ELSE psock
          /\ pstate' = [pstate EXCEPT ![p] =
                          CASE ok -> "FINISHED"
                            [] repeat -> "WAITING"
                            [] OTHER -> "PREPARED"]
          /\ wphase' = [wphase EXCEPT ![p] = IF sendOK /\ isOp THEN "asked" ELSE "enter"]
    /\ UNCHANGED <<log, rows, rmPrep, mstate, lsock, pmstate, child, coordVars,
                   conn, c2p, edge, changed, envVars, pprev>>

\* _waiting_state, the reply to the repeated TRANSACTION_STATUS.  A null read
\* stays in WAITING.  Any reply is a non-empty list, so the test
\* `elif coordinator_response:` holds: the resources are released and the
\* thread moves to FINISHED; the branch that would look at the reply is never
\* taken.
PartWaitingReply(p) ==
    /\ pstate[p] = "WAITING" /\ wphase[p] = "asked"
    /\ LET got == PartCanRead(p)
       IN /\ c2p' = IF got THEN [c2p EXCEPT ![p] = Tail(@)] ELSE c2p
          /\ rm' = IF got THEN [rm EXCEPT ![p] = RMCommit(@)] ELSE rm
          /\ pstate' = [pstate EXCEPT ![p] = IF got THEN "FINISHED" ELSE "WAITING"]
    /\ psock' = [psock EXCEPT ![p] = CloseSelf(@)]
    /\ wphase' = [wphase EXCEPT ![p] = "enter"]
    /\ UNCHANGED <<log, rows, rmPrep, mstate, lsock, pmstate, child, coordVars,
                   conn, p2c, edge, changed, envVars, pprev>>

\* ------------------------------------------------------------------- failure
\* Site 0 crashes: its threads, their sockets and what the RM had not
\* committed are lost; the protocol log and the committed work stay.  A
\* restart that would find the transaction both abortable and prepared, and
\* start two threads for it, is not followed.
Crash ==
    /\ crashes < MaxCrashes
    /\ cstate # "NONE"
    /\ ~(rmPrep /\ GetAbortable(log[0]))
    /\ crashes' = crashes + 1
    /\ crashedAt' =
          IF /\ cstate = "POLLING" \/ (cstate = "COMMIT" /\ cphase = "start")
             /\ rm[0] = "committed"
             /\ ActiveMap # {}
             /\ \A p \in ActiveMap : vote[p] = "PREPARED_FROM_PARTICIPANT"
          THEN "prepared" ELSE "other"
    /\ rm' = [rm EXCEPT ![0] = RMLost(@)]
    /\ mstate' = "RECOVERY"
    /\ lsock' = "none"
    /\ child' = [child EXCEPT ![0] = FALSE]
    /\ cstate' = "NONE"
    /\ cprev' = "None"
    /\ clientMessage' = "unread"
    /\ csock' = [p \in Parts |-> "none"]
    /\ clientSock' = "none"
    /\ toClient' = toClient
    /\ cphase' = "start"
    /\ vote' = [p \in Parts |-> "none"]
    /\ mcTodo' = {}
    /\ mcWait' = 0
    /\ acked' = {}
    /\ origin' = "none"
    /\ conn' = [p \in Parts |-> "none"]
    /\ c2p' = [p \in Parts |-> <<>>]
    /\ p2c' = [p \in Parts |-> <<>>]
    /\ UNCHANGED <<log, rows, rmPrep, pmstate, partVars, inserts, sent,
                   peerMsgs, accepted>>

\* ------------------------------------------------------------- specification
DaemonStep ==
    \/ DaemonRecovery
    \/ DaemonInitialize
    \/ DaemonStart

\* run of the coordinator thread: the handler of the current state.
CoordStep ==
    \/ CoordInitialize
    \/ CoordActiveNone
    \/ CoordActiveInsertLocal
    \/ \E p \in Parts : CoordActiveInsertRemote(p)
    \/ CoordActiveInsertReply
    \/ CoordActiveAbort
    \/ CoordActiveCommit
    \/ CoordActiveLogCommit
    \/ \E p \in Parts : CoordPollSend(p)
    \/ \E p \in Parts : CoordPollReply(p)
    \/ CoordPollDecide
    \/ CoordCommit
    \/ CoordAbort
    \/ CoordWaiting
    \/ CoordMulticastReply
    \/ CoordFinished

\* run of the participant thread of site p, driven by the coordinator above:
\* the handler of the current state.  (No message of the coordinator moves
\* the thread to COMMIT; _commit_state is part of PeerStep below.)
PartStep(p) ==
    \/ PartInitialize(p)
    \/ PartActive(p)
    \/ PartPrepared(p)
    \/ PartAbort(p)
    \/ PartWaitingClose(p)
    \/ PartWaitingResume(p)

Step ==
    \/ DaemonStep
    \/ CoordStep
    \/ \E p \in Parts : Dispatch(p)
    \/ \E p \in Parts : PartStep(p)

Next ==
    \/ Step
    \/ Crash
    \/ \E m \in AcceptOps : DaemonAccept(m)

Spec == Init /\ [][Next]_vars

\* Site 0 stays up; every thread that can take a step eventually takes one.
FairSpec ==
    /\ Init
    /\ [][Step]_vars
    /\ WF_vars(DaemonRecovery \/ DaemonInitialize)
    /\ WF_vars(CoordStep)
    /\ \A p \in Parts : WF_vars(Dispatch(p))
    /\ \A p \in Parts : WF_vars(PartStep(p))

\* ------------------------------------------- a participant thread on its own
\* The participant threads driven over their sockets by a peer that may send
\* any op code (as the unit tests of the thread do), close the connection, or
\* open a new connection to the site's daemon with a decision message.
\* csock[p] is the peer's end of the connection.
PeerOps == {"INSERT_FROM_COORDINATOR", "PREPARE_TO_COMMIT",
            "COMMIT_FROM_COORDINATOR", "ROLLBACK_FROM_COORDINATOR",
            "COMMIT_TRANSACTION", "ABORT_TRANSACTION"}

\* The first message of a new connection to the daemon of a participant site.
ReconnectOps == {"COMMIT_FROM_COORDINATOR", "ROLLBACK_FROM_COORDINATOR",
                 "INITIATE_PARTICIPANT"}

PeerConstructed ==
    /\ rows = {}
    /\ rmPrep = FALSE
    /\ mstate = "FINISHED"
    /\ lsock = "none"
    /\ accepted = <<>>
    /\ pmstate = [p \in Parts |-> "ACTIVE"]
    /\ child = [s \in Sites |-> s \in Parts]
    /\ cstate = "NONE"
    /\ cprev = "None"
    /\ clientMessage = "unread"
    /\ csock = [p \in Parts |-> "open"]
    /\ clientSock = "none"
    /\ toClient = <<>>
    /\ cphase = "start"
    /\ vote = [p \in Parts |-> "none"]
    /\ mcTodo = {}
    /\ mcWait = 0
    /\ acked = {}
    /\ conn = [p \in Parts |-> "thread"]
    /\ c2p = [p \in Parts |-> <<>>]
    /\ p2c = [p \in Parts |-> <<>>]
    /\ edge = [p \in Parts |-> "None"]
    /\ changed = [p \in Parts |-> FALSE]
    /\ psock = [p \in Parts |-> "open"]
    /\ wphase = [p \in Parts |-> "enter"]
    /\ pprev = [p \in Parts |-> "None"]
    /\ inserts = 0
    /\ crashes = 0
    /\ crashedAt = "none"
    /\ sent = {}
    /\ peerMsgs = 0
    /\ origin = "none"

PeerInit ==
    /\ log = [s \in Sites |-> <<>>]
    /\ rm = [s \in Sites |-> "none"]
    /\ pstate = [p \in Parts |-> "INITIALIZE"]
    /\ PeerConstructed

PeerSend(p, m) ==
    /\ peerMsgs < MaxPeerMsgs
    /\ csock[p] = "open" /\ conn[p] = "thread" /\ psock[p] = "open"
    /\ c2p[p] = <<>>
    /\ c2p' = [c2p EXCEPT ![p] = <<m>>]
    /\ peerMsgs' = peerMsgs + 1
    /\ UNCHANGED <<siteVars, mstate, lsock, pmstate, child, coordVars, conn,
                   p2c, partVars, inserts, crashes, crashedAt, accepted, sent>>

PeerClose(p) ==
    /\ csock[p] = "open"
    /\ csock' = [csock EXCEPT ![p] = "closed"]
    /\ UNCHANGED <<siteVars, mstate, lsock, pmstate, child, cstate, cprev,
                   clientMessage, clientSock, toClient, cphase, vote, mcTodo,
                   mcWait, acked, origin, connVars, partVars, envVars>>

PeerReconnect(p, m) ==
    /\ peerMsgs < MaxPeerMsgs
    /\ csock[p] = "closed"
    /\ m \in ReconnectOps
    /\ csock' = [csock EXCEPT ![p] = "open"]
    /\ conn' = [conn EXCEPT ![p] = "listen"]
    /\ c2p' = [c2p EXCEPT ![p] = <<m>>]
    /\ p2c' = [p2c EXCEPT ![p] = <<>>]
    /\ peerMsgs' = peerMsgs + 1
    /\ UNCHANGED <<siteVars, mstate, lsock, pmstate, child, cstate, cprev,
                   clientMessage, clientSock, toClient, cphase, vote, mcTodo,
                   mcWait, acked, origin, partVars, inserts, crashes,
                   crashedAt, accepted, sent>>

PeerStep ==
    \/ \E p \in Parts, m \in PeerOps : PeerSend(p, m)
    \/ \E p \in Parts : PeerClose(p)
    \/ \E p \in Parts, m \in ReconnectOps : PeerReconnect(p, m)
    \/ \E p \in Parts : Dispatch(p)
    \/ \E p \in Parts : PartStep(p)
    \/ \E p \in Parts : PartCommit(p)

PeerSpec == PeerInit /\ [][PeerStep]_vars

\* ---------------------------------------- participant threads set to RECOVERY
\* A participant thread is constructed on a connection to its coordinator and
\* its parent sets its state to RECOVERY before starting it.  The site's log
\* holds I, or I and C, from the run before, and the RM holds what that run
\* committed.  The peer answers as it likes.

\* _recovery_state up to the send of TRANSACTION_STATUS.  Whether the WAL
\* says the transaction is prepared is either way; when it does not, the
\* thread moves to ABORT.  When it does, the statements are undone and
\* executed again and TRANSACTION_STATUS is sent through _send_edge: a failed
\* send records the edge and moves to WAITING.
PartRecovery(p) ==
    /\ pstate[p] = "RECOVERY" /\ wphase[p] = "enter"
    /\ \E prepared \in BOOLEAN :
       LET ok == prepared /\ PartSendOK(p)
       IN /\ rm' = IF prepared THEN [rm EXCEPT ![p] = RMRedo(RMUndo(@))] ELSE rm
          /\ p2c' = IF ok THEN [p2c EXCEPT ![p] = Append(@, "TRANSACTION_STATUS")]
                    ELSE p2c
          /\ psock' = IF prepared /\ ~ok THEN [psock EXCEPT ![p] = CloseSelf(@)]
                      ELSE psock
          /\ edge' = IF prepared /\ ~ok
                     THEN [edge EXCEPT ![p] = "TRANSACTION_STATUS"] ELSE edge
          /\ pstate' = [pstate EXCEPT ![p] =
                          CASE ~prepared -> "ABORT"
                            [] ok -> "RECOVERY"
                            [] OTHER -> "WAITING"]
          /\ wphase' = [wphase EXCEPT ![p] = IF ok THEN "asked" ELSE "enter"]
    /\ UNCHANGED <<log, rows, rmPrep, mstate, lsock, pmstate, child, coordVars,
                   conn, c2p, changed, pprev, envVars>>

\* _recovery_state, the reply to TRANSACTION_STATUS: a null read records the
\* edge and moves to WAITING, TRANSACTION_COMMITTED moves to COMMIT,
\* TRANSACTION_ABORTED sets previous_state and moves to ABORT, anything else
\* leaves the state as it is.
PartRecoveryReply(p) ==
    /\ pstate[p] = "RECOVERY" /\ wphase[p] = "asked"
    /\ LET got == PartCanRead(p)
           m == IF got THEN Head(c2p[p]) ELSE "None"
       IN /\ c2p' = IF got THEN [c2p EXCEPT ![p] = Tail(@)] ELSE c2p
          /\ psock' = IF got THEN psock ELSE [psock EXCEPT ![p] = CloseSelf(@)]
          /\ edge' = IF got THEN edge ELSE [edge EXCEPT ![p] = "TRANSACTION_STATUS"]
          /\ pprev' = IF m = "TRANSACTION_ABORTED"
                      THEN [pprev EXCEPT ![p] = "RECOVERY"] ELSE pprev
          /\ pstate' = [pstate EXCEPT ![p] =
                          CASE m = "None" -> "WAITING"
                            [] m = "TRANSACTION_COMMITTED" -> "COMMIT"
                            [] m = "TRANSACTION_ABORTED" -> "ABORT"
                            [] OTHER -> "RECOVERY"]
    /\ wphase' = [wphase EXCEPT ![p] = "enter"]
    /\ UNCHANGED <<siteVars, mstate, lsock, pmstate, child, coordVars, conn,
                   p2c, changed, envVars>>

StatusReplies == {"TRANSACTION_COMMITTED", "TRANSACTION_ABORTED",
                  "COMMIT_FROM_COORDINATOR", "ROLLBACK_FROM_COORDINATOR",
                  "OK"}

RecoverInit ==
    /\ \E done \in SUBSET Parts :
          /\ log = [s \in Sites |-> CASE s \in done -> <<"I", "C">>
                                      [] s \in Parts -> <<"I">>
                                      [] OTHER -> <<>>]
          /\ rm = [s \in Sites |-> IF s \in done THEN "committed" ELSE "none"]
    /\ pstate = [p \in Parts |-> "RECOVERY"]
    /\ PeerConstructed

RecoverStep ==
    \/ \E p \in Parts, m \in StatusReplies : PeerSend(p, m)
    \/ \E p \in Parts : PeerClose(p)
    \/ \E p \in Parts, m \in StatusReplies : PeerReconnect(p, m)
    \/ \E p \in Parts : Dispatch(p)
    \/ \E p \in Parts : PartRecovery(p)
    \/ \E p \in Parts : PartRecoveryReply(p)
    \/ \E p \in Parts : PartAbort(p)
    \/ \E p \in Parts : PartCommit(p)
    \/ \E p \in Parts : PartWaitingClose(p)
    \/ \E p \in Parts : PartWaitingResume(p)
    \/ \E p \in Parts : PartWaitingReply(p)

RecoverSpec == RecoverInit /\ [][RecoverStep]_vars

\* --------------------------------- the daemon of a participant site restarts
\* The daemon of a participant site starts again in RECOVERY.  Its log holds
\* the participant role for tid with the records I, or I and P; its RM lists
\* tid in tpc_recover() from tpc_prepare until the decision, the span in which
\* P is the last record of the log.  The site of the logged coordinator
\* accepts connections (csock "open") or does not (csock "none").
ListedPrepared(s) == log[s] # <<>> /\ Last(log[s]) = "P"

\* _recovery_state of the daemon of site p, participant role: an abortable
\* tid gets a participant thread in ABORT (_abort_transaction), a tid the RM
\* lists as prepared gets a participant thread in PREPARED
\* (_recover_transaction), each on a new connection to the logged
\* coordinator.  connect() is not guarded here: when the coordinator's site
\* does not accept, the exception leaves _recovery_state and run(), and the
\* daemon thread ends having spawned nothing.
RecoveredParticipantState(s) ==
    CASE GetAbortable(log[s]) -> "ABORT"
      [] ListedPrepared(s) -> "PREPARED"
      [] OTHER -> "NONE"

PartSiteRecovery(p) ==
    /\ pmstate[p] = "RECOVERY"
    /\ LET st == RecoveredParticipantState(p)
           connected == csock[p] = "open"
           spawn == st # "NONE" /\ connected
       IN /\ pmstate' = [pmstate EXCEPT ![p] =
                           IF st # "NONE" /\ ~connected THEN "CRASHED"
                           ELSE "INITIALIZE"]
          /\ child' = IF spawn THEN [child EXCEPT ![p] = TRUE] ELSE child
          /\ pstate' = IF spawn THEN [pstate EXCEPT ![p] = st] ELSE pstate
          /\ psock' = IF spawn THEN [psock EXCEPT ![p] = "open"] ELSE psock
          /\ conn' = IF spawn THEN [conn EXCEPT ![p] = "thread"] ELSE conn
    /\ UNCHANGED <<siteVars, mstate, lsock, coordVars, c2p, p2c, edge, changed,
                   wphase, pprev, envVars>>

\* _initialize_state of the daemon of site p: the server socket is bound.
PartSiteInitialize(p) ==
    /\ pmstate[p] = "INITIALIZE"
    /\ pmstate' = [pmstate EXCEPT ![p] = "ACTIVE"]
    /\ UNCHANGED <<siteVars, mstate, lsock, child, coordVars, connVars,
                   partVars, envVars>>

RestartOps == {"COMMIT_TRANSACTION", "ABORT_TRANSACTION",
               "COMMIT_FROM_COORDINATOR", "ROLLBACK_FROM_COORDINATOR"}

RestartInit ==
    /\ \E prep \in SUBSET Parts :
          log = [s \in Sites |-> CASE s \in prep -> <<"I", "P">>
                                   [] s \in Parts -> <<"I">>
                                   [] OTHER -> <<>>]
    /\ \E up \in SUBSET Parts :
          csock = [p \in Parts |-> IF p \in up THEN "open" ELSE "none"]
    /\ rm = [s \in Sites |-> "none"]
    /\ rows = {}
    /\ rmPrep = FALSE
    /\ mstate = "FINISHED"
    /\ lsock = "none"
    /\ accepted = <<>>
    /\ pmstate = [p \in Parts |-> "RECOVERY"]
    /\ child = [s \in Sites |-> FALSE]
    /\ cstate = "NONE"
    /\ cprev = "None"
    /\ clientMessage = "unread"
    /\ clientSock = "none"
    /\ toClient = <<>>
    /\ cphase = "start"
    /\ vote = [p \in Parts |-> "none"]
    /\ mcTodo = {}
    /\ mcWait = 0
    /\ acked = {}
    /\ conn = [p \in Parts |-> "none"]
    /\ c2p = [p \in Parts |-> <<>>]
    /\ p2c = [p \in Parts |-> <<>>]
    /\ pstate = [p \in Parts |-> "NONE"]
    /\ edge = [p \in Parts |-> "None"]
    /\ changed = [p \in Parts |-> FALSE]
    /\ psock = [p \in Parts |-> "none"]
    /\ wphase = [p \in Parts |-> "enter"]
    /\ pprev = [p \in Parts |-> "None"]
    /\ inserts = 0
    /\ crashes = 0
    /\ crashedAt = "none"
    /\ sent = {}
    /\ peerMsgs = 0
    /\ origin = "none"

RestartStep ==
    \/ \E p \in Parts : PartSiteRecovery(p)
    \/ \E p \in Parts : PartSiteInitialize(p)
    \/ \E p \in Parts, m \in RestartOps : PeerSend(p, m)
    \/ \E p \in Parts : PeerClose(p)
    \/ \E p \in Parts, m \in RestartOps : PeerReconnect(p, m)
    \/ \E p \in Parts : Dispatch(p)
    \/ \E p \in Parts : PartPrepared(p)
    \/ \E p \in Parts : PartAbort(p)
    \/ \E p \in Parts : PartCommit(p)
    \/ \E p \in Parts : PartWaitingClose(p)
    \/ \E p \in Parts : PartWaitingResume(p)

RestartSpec == RestartInit /\ [][RestartStep]_vars

\* ================================================================ properties
\* C1: no site's STATE_LOG ever holds both a C record and an A record for the
\* tid, whatever the coordinator, the participants and recovery have done
\* (a failed local prepare and a NO vote during polling included).
C1_CommitAndAbortExclusive ==
    \A s \in Sites : ~(Has(log[s], "C") /\ Has(log[s], "A"))

\* C2: a coordinator leaves POLLING for COMMIT only if every participant of
\* its active map replied PREPARED_FROM_PARTICIPANT (so every one of them has
\* prepared); with any other reply, no reply or a failed send of
\* PREPARE_TO_COMMIT it leaves POLLING for ABORT, whatever the others voted.
C2_PollingDecision ==
    [][(cstate = "POLLING" /\ cstate' \notin {"POLLING", "NONE"}) =>
          /\ cstate' \in {"COMMIT", "ABORT"}
          /\ cstate' = "COMMIT" <=>
                \A p \in ActiveMap : vote[p] = "PREPARED_FROM_PARTICIPANT"
          /\ cstate' = "COMMIT" => \A p \in ActiveMap : Has(log[p], "C")]_vars

\* A coordinator built for a client has moved from POLLING to ABORT although
\* one participant voted yes: the other one voted no, did not answer, or
\* could not be sent PREPARE_TO_COMMIT.
C2_Witness ==
    /\ cstate = "ABORT" /\ origin = "client"
    /\ \E p \in ActiveMap : vote[p] = "PREPARED_FROM_PARTICIPANT"
    /\ \E p \in ActiveMap : vote[p] \in {"ABORT_FROM_PARTICIPANT", "None", "SendFail"}

\* C3: the coordinator's log holds a C record before the local RM commits
\* the tid's inserts and before any COMMIT_FROM_COORDINATOR is sent.
C3_CommitLoggedFirst ==
    /\ rm[0] = "committed" => Has(log[0], "C")
    /\ \A r \in sent : r[1] = "COMMIT_FROM_COORDINATOR" => r[3]

\* C4: every decision message the coordinator sends (in COMMIT, in ABORT, on
\* every WAITING retry) agrees with its log: with A logged it sends
\* ROLLBACK_FROM_COORDINATOR only, with C logged COMMIT_FROM_COORDINATOR only.
C4_DecisionMatchesLog ==
    \A r \in sent : /\ r[2] => r[1] = "ROLLBACK_FROM_COORDINATOR"
                    /\ r[3] => r[1] = "COMMIT_FROM_COORDINATOR"

\* C5: a participant in PREPARED that reads COMMIT_FROM_COORDINATOR moves to
\* COMMIT, one that reads ROLLBACK_FROM_COORDINATOR moves to ABORT.
C5_DecisionApplied ==
    [][\A p \in Parts :
          (/\ pstate[p] = "PREPARED"
           /\ PartCanRead(p)
           /\ conn'[p] = "thread"
           /\ c2p'[p] = Tail(c2p[p]))
          => /\ Head(c2p[p]) = "COMMIT_FROM_COORDINATOR" => pstate'[p] = "COMMIT"
             /\ Head(c2p[p]) = "ROLLBACK_FROM_COORDINATOR" => pstate'[p] = "ABORT"]_vars

C7_CommitDelivered ==
    (cstate = "COMMIT" /\ cphase = "mcast")
       ~> (/\ cstate \in {"FINISHED", "EXITED"}
           /\ ActiveMap = {}
           /\ \A p \in Parts : child[p] => (Has(log[p], "C") /\ Has(log[p], "D")))

C9_RecoveryRepolls ==
    [][(mstate = "RECOVERY" /\ mstate' = "INITIALIZE" /\ crashedAt = "prepared")
          => cstate' = "POLLING"]_vars

\* C10: when a participant waits for the decision after its channel dropped
\* in PREPARED, and the coordinator's decision arrives at the site's daemon on
\* a new connection, the coordinator eventually gets ACKNOWLEDGE_END from the
\* participant and removes it from the active map.
C10_InjectedDecisionAcknowledged ==
    \A p \in Parts :
       (/\ pstate[p] = "WAITING" /\ edge[p] = "None"
        /\ conn[p] = "listen" /\ c2p[p] # <<>>
        /\ Head(c2p[p]) \in {"COMMIT_FROM_COORDINATOR", "ROLLBACK_FROM_COORDINATOR"})
       ~> (csock[p] = "none")

\* C11: a participant whose ACKNOWLEDGE_END send fails in COMMIT or in ABORT
\* records the edge and moves to WAITING; it becomes FINISHED only in a step
\* in which a send of ACKNOWLEDGE_END to the coordinator has succeeded.
C11_FinishedOnlyAfterAck ==
    [][\A p \in Parts :
         /\ (pstate[p] # "FINISHED" /\ pstate'[p] = "FINISHED")
               => p2c'[p] = Append(p2c[p], "ACKNOWLEDGE_END")
         /\ (pstate[p] \in {"COMMIT", "ABORT"} /\ pstate'[p] # pstate[p]
               /\ p2c'[p] = p2c[p])
               => (pstate'[p] = "WAITING" /\ edge'[p] = "ACKNOWLEDGE_END")]_vars

\* C12: a participant that gets a null read in PREPARED records
\* TRANSACTION_STATUS as its previous edge when it moves to WAITING, and when
\* it leaves WAITING for PREPARED on an injected channel it has sent
\* TRANSACTION_STATUS on that channel.
C12_PreparedTimeoutAsksStatus ==
    [][\A p \in Parts :
         /\ (pstate[p] = "PREPARED" /\ pstate'[p] = "WAITING")
               => edge'[p] = "TRANSACTION_STATUS"
         /\ (pstate[p] = "WAITING" /\ pstate'[p] = "PREPARED")
               => p2c'[p] = Append(p2c[p], "TRANSACTION_STATUS")]_vars

\* C13: when the dispatcher of a site takes a COMMIT_FROM_COORDINATOR or a
\* ROLLBACK_FROM_COORDINATOR for a transaction that has no entry in
\* child_threads, it replies ACKNOWLEDGE_END on that connection and closes it,
\* starts no state machine, and leaves child_threads and the daemon's state
\* as they were.
C13_UnknownDecisionAcknowledged ==
    [][\A p \in Parts :
         (/\ conn[p] = "listen" /\ conn'[p] \in {"dropped", "thread"}
          /\ c2p[p] # <<>>
          /\ Head(c2p[p]) \in {"COMMIT_FROM_COORDINATOR", "ROLLBACK_FROM_COORDINATOR"}
          /\ ~child[p])
         => /\ p2c'[p] = Append(p2c[p], "ACKNOWLEDGE_END")
            /\ conn'[p] = "dropped"
            /\ child' = child
            /\ pstate' = pstate /\ psock' = psock
            /\ mstate' = mstate]_vars

C13_Witness ==
    \E p \in Parts :
       /\ ~child[p]
       /\ conn[p] = "dropped"
       /\ p2c[p] # <<>> /\ Last(p2c[p]) = "ACKNOWLEDGE_END"

\* C14: a COMMIT_FROM_COORDINATOR or ROLLBACK_FROM_COORDINATOR taken by the
\* dispatcher of a site whose participant for the transaction has reached
\* FINISHED is answered with ACKNOWLEDGE_END, and the participant's state and
\* the site's log stay as they were.
C14_DuplicateDecisionAcknowledged ==
    [][\A p \in Parts :
         (/\ conn[p] = "listen" /\ conn'[p] \in {"dropped", "thread"}
          /\ c2p[p] # <<>>
          /\ Head(c2p[p]) \in {"COMMIT_FROM_COORDINATOR", "ROLLBACK_FROM_COORDINATOR"}
          /\ child[p] /\ pstate[p] = "FINISHED")
         => /\ p2c'[p] = Append(p2c[p], "ACKNOWLEDGE_END")
            /\ pstate'[p] = "FINISHED"
            /\ log'[p] = log[p]]_vars

\* C15: daemon recovery on a log whose transaction is resolved (its history
\* ends in D) starts no coordinator and no participant, and a history that
\* ends in D gets no further state record.
C15_RecoveryOfResolvedLogIsNoOp ==
    [][/\ (/\ mstate = "RECOVERY" /\ mstate' # "RECOVERY"
           /\ log[0] # <<>> /\ Last(log[0]) = "D")
          => (cstate' = "NONE" /\ child' = child /\ log' = log)
       /\ \A s \in Sites :
            (log[s] # <<>> /\ Last(log[s]) = "D") => log'[s] = log[s]]_vars

\* ---------------------------------------------- the recovery query on any log
\* The protocol database of site 0 holds any history of state records for the
\* transaction that begins with its I record, written through the log_*_of
\* calls as test_transaction_recovery does, and the daemon's recovery applies
\* get_abortable_transactions to it.
MaxHistory == 3

StateRecords == {"I", "P", "C", "A", "D"}

\* No history, or I followed by up to MaxHistory further records.
Histories ==
    {<<>>} \cup {<<"I">> \o t : t \in UNION {[1..n -> StateRecords] : n \in 0..MaxHistory}}

LogInit ==
    /\ \E h \in Histories : log = [s \in Sites |-> IF s = 0 THEN h ELSE <<>>]
    /\ rows = {}
    /\ rmPrep = FALSE
    /\ Constructed

LogSpec == LogInit /\ [][DaemonRecovery]_vars

\* C16: for every log content get_abortable_transactions returns exactly the
\* transactions whose history holds none of C, P and A; recovery therefore
\* starts an aborting coordinator for the transaction if and only if its
\* history is not empty and holds no C, no P and no A record.
C16_AbortableIffNoCPA ==
    mstate # "RECOVERY" =>
       ((cstate = "ABORT") <=>
           (/\ log[0] # <<>>
            /\ ~Has(log[0], "C") /\ ~Has(log[0], "P") /\ ~Has(log[0], "A")))

C18_CompletionLoggedLast ==
    /\ cstate = "EXITED" => (log[0] # <<>> /\ Last(log[0]) = "D")
    /\ \A p \in Parts :
          pstate[p] = "FINISHED" => (log[p] # <<>> /\ Last(log[p]) = "D")
    /\ \A s \in Sites : \A i \in 1..Len(log[s]) :
          log[s][i] = "D" => i = Len(log[s])

\* C19: a coordinator that runs FINISHED with its client channel still open
\* sends the client exactly one final reply: TRANSACTION_COMMITTED when it
\* logged C, TRANSACTION_ABORTED when it logged A.
C19_FinalReplyToClient ==
    [][(cstate = "FINISHED" /\ cstate' = "EXITED" /\ clientSock = "open")
         => \E r \in {"TRANSACTION_COMMITTED", "TRANSACTION_ABORTED"} :
               /\ toClient' = Append(toClient, r)
               /\ r = "TRANSACTION_COMMITTED" => Has(log[0], "C")
               /\ r = "TRANSACTION_ABORTED" => Has(log[0], "A")]_vars

\* C20: for every INSERT_FROM_CLIENT the coordinator handles in ACTIVE it
\* sends the client one reply: OK when the statement succeeded on the site it
\* routes to (the local RM, or the participant there), and nothing but FAIL
\* when it failed there; no step sends more than one reply.
C20_OneReplyPerInsert ==
    [][/\ (/\ cstate = "ACTIVE" /\ cstate' = "ACTIVE" /\ cphase' = "read"
           /\ \/ cphase = "read" /\ inserts' = inserts + 1
              \/ cphase = "ins")
          => toClient' = Append(toClient, "OK")
       /\ (/\ cstate = "ACTIVE" /\ cstate' = "ABORT"
           /\ \/ cphase = "read" /\ inserts' = inserts + 1
              \/ cphase = "ins")
          => toClient' \in {toClient, Append(toClient, "FAIL")}
       /\ Len(toClient') <= Len(toClient) + 1]_vars

\* C21: a coordinator whose active map is empty when its RM call for
\* COMMIT_TRANSACTION has succeeded leaves ACTIVE for COMMIT; it does not
\* enter POLLING.
C21_SingleSiteBypassesPolling ==
    [][(/\ cstate = "ACTIVE" /\ cphase = "rmok" /\ ActiveMap = {}
        /\ cstate' \notin {"ACTIVE", "NONE"})
         => cstate' = "COMMIT"]_vars

\* C22: a participant in ACTIVE that reads ROLLBACK_FROM_COORDINATOR from its
\* coordinator moves to ABORT.
C22_RollbackInActiveAborts ==
    [][\A p \in Parts :
         (/\ pstate[p] = "ACTIVE" /\ PartCanRead(p)
          /\ Head(c2p[p]) = "ROLLBACK_FROM_COORDINATOR"
          /\ conn'[p] = "thread" /\ c2p'[p] = Tail(c2p[p]))
         => pstate'[p] = "ABORT"]_vars

\* C23: a participant in ACTIVE that reads PREPARE_TO_COMMIT either has its RM
\* call succeed (C is logged), answers PREPARED_FROM_PARTICIPANT and moves to
\* PREPARED, or has it fail (A is logged), answers ABORT_FROM_PARTICIPANT and
\* moves to ABORT; the answer reaches the channel whenever the send can
\* succeed, and PREPARED_FROM_PARTICIPANT is never the answer to a failed call.
C23_VoteMatchesPrepare ==
    [][\A p \in Parts :
         (/\ pstate[p] = "ACTIVE" /\ PartCanRead(p)
          /\ Head(c2p[p]) = "PREPARE_TO_COMMIT"
          /\ conn'[p] = "thread" /\ c2p'[p] = Tail(c2p[p]))
         => \/ /\ log'[p] = Append(log[p], "C")
               /\ pstate'[p] = "PREPARED"
               /\ p2c'[p] = IF PartSendOK(p)
                            THEN Append(p2c[p], "PREPARED_FROM_PARTICIPANT")
                            ELSE p2c[p]
            \/ /\ log'[p] = Append(log[p], "A")
               /\ pstate'[p] = "ABORT"
               /\ p2c'[p] = IF PartSendOK(p)
                            THEN Append(p2c[p], "ABORT_FROM_PARTICIPANT")
                            ELSE p2c[p]]_vars

C23_Witness ==
    \E p \in Parts, q \in Parts :
       /\ pstate[p] = "PREPARED" /\ Last(log[p]) = "C"
       /\ p2c[p] # <<>> /\ Last(p2c[p]) = "PREPARED_FROM_PARTICIPANT"
       /\ pstate[q] = "ABORT" /\ Last(log[q]) = "A"
       /\ p2c[q] # <<>> /\ Last(p2c[q]) = "ABORT_FROM_PARTICIPANT"

\* C24: a read that returns None closes the socket it was made on; while a
\* thread's socket is closed nothing it sends reaches the channel; and a send
\* to a peer whose end is closed does not reach the channel either and closes
\* the sender's socket (the send returns False, the handler goes on).
C24_FailedReadClosesSocket ==
    [][\A p \in Parts :
         /\ (/\ pstate[p] \in {"ACTIVE", "PREPARED"} /\ ~PartCanRead(p)
             /\ pstate'[p] \in {"ABORT", "WAITING"} /\ pstate'[p] # pstate[p])
            => psock'[p] # "open"
         /\ (/\ cstate = "POLLING" /\ cstate' = "POLLING"
             /\ vote[p] = "sent" /\ vote'[p] # "sent" /\ ~CoordCanRead(p))
            => (vote'[p] = "None" /\ csock'[p] = "closed")
         /\ (child[p] /\ psock[p] # "open" /\ psock'[p] # "open")
            => Len(p2c'[p]) <= Len(p2c[p])
         /\ (csock[p] = "closed" /\ csock'[p] = "closed")
            => Len(c2p'[p]) <= Len(c2p[p])
         /\ (/\ psock[p] = "open" /\ csock[p] # "open" /\ csock'[p] # "open"
             /\ pstate[p] \in {"ABORT", "COMMIT"} /\ pstate'[p] # pstate[p])
            => (Len(p2c'[p]) <= Len(p2c[p]) /\ psock'[p] = "closed")]_vars

C24_Witness ==
    \E p \in Parts :
       /\ pstate[p] = "FINISHED" /\ edge[p] = "ACKNOWLEDGE_END"
       /\ psock[p] = "closed" /\ p2c[p] = <<>>
       /\ vote[p] = "None" /\ csock[p] = "closed"

\* C25: no two sites hold different outcomes of the transaction: never does
\* one site's log hold C (or its RM hold the transaction's inserts committed)
\* while another site's log holds A.
C25_SitesAgree ==
    \A s \in Sites, t \in Sites :
       s # t => ~(/\ Has(log[s], "C") \/ rm[s] = "committed"
                  /\ Has(log[t], "A"))

\* C26: the coordinator leaves POLLING only when a vote (a reply, a null reply
\* or a failed send) is recorded for every entry of the active map, and the
\* state it moves to is determined by the recorded votes alone, whatever the
\* order in which the polls were sent and answered.
C26_AllVotesBeforeDecision ==
    [][(cstate = "POLLING" /\ cstate' \notin {"POLLING", "NONE"}) =>
          /\ \A p \in ActiveMap :
                vote[p] \in {"PREPARED_FROM_PARTICIPANT", "ABORT_FROM_PARTICIPANT",
                             "OK", "ACKNOWLEDGE_END", "None", "SendFail"}
          /\ vote' = vote /\ csock' = csock
          /\ cstate' = IF \E p \in ActiveMap : vote[p] # "PREPARED_FROM_PARTICIPANT"
                       THEN "ABORT" ELSE "COMMIT"]_vars

\* The coordinator has decided to commit on the votes of two participants.
C26_Witness ==
    /\ cstate = "COMMIT" /\ cphase = "start"
    /\ ActiveMap = Parts
    /\ \A p \in Parts : vote[p] = "PREPARED_FROM_PARTICIPANT"

\* C27: the coordinator removes a participant from its active map only when
\* it has read ACKNOWLEDGE_END from it in the multicast of the decision;
\* when a multicast ends, the participants that did not acknowledge are still
\* in the map; and the coordinator moves from COMMIT, ABORT or WAITING to
\* FINISHED only with an empty map.
C27_RemovedOnlyAfterAck ==
    [][/\ \A p \in Parts :
            (csock[p] # "none" /\ csock'[p] = "none" /\ cstate' # "NONE")
            => /\ cstate \in {"COMMIT", "ABORT", "WAITING"} /\ cphase = "mcast"
               /\ \/ p \in acked
                  \/ /\ mcWait = p /\ CoordCanRead(p)
                     /\ Head(p2c[p]) = "ACKNOWLEDGE_END"
       /\ (/\ cstate \in {"COMMIT", "ABORT", "WAITING"} /\ cphase = "mcast"
           /\ cphase' = "start" /\ cstate' # "NONE")
          => \A p \in ActiveMap :
                (/\ p \notin acked
                 /\ ~(/\ mcWait = p /\ CoordCanRead(p)
                      /\ Head(p2c[p]) = "ACKNOWLEDGE_END"))
                => csock'[p] # "none"
       /\ (cstate \in {"COMMIT", "ABORT", "WAITING"} /\ cstate' = "FINISHED")
          => \A p \in Parts : csock'[p] = "none"]_vars

\* The decision has been multicast; one participant acknowledged and is out
\* of the map, the other did not and is still in it.
C27_Witness ==
    /\ cstate = "WAITING" /\ cphase = "start"
    /\ \E p \in rows : csock[p] = "none"
    /\ \E p \in rows : csock[p] # "none"

\* C28: a participant in WAITING whose recorded edge is TRANSACTION_STATUS
\* and that reads the reply to its repeated question moves to COMMIT on
\* COMMIT_FROM_COORDINATOR or TRANSACTION_COMMITTED, to ABORT on
\* ROLLBACK_FROM_COORDINATOR or TRANSACTION_ABORTED, and stays in WAITING on
\* any other reply or on none; it never moves straight to FINISHED.
C28_StatusReplyDecides ==
    [][\A p \in Parts :
         (/\ pstate[p] = "WAITING" /\ wphase[p] = "asked"
          /\ edge[p] = "TRANSACTION_STATUS"
          /\ wphase'[p] = "enter")
         => LET m == IF PartCanRead(p) THEN Head(c2p[p]) ELSE "None"
            IN pstate'[p] =
                 CASE m \in {"COMMIT_FROM_COORDINATOR", "TRANSACTION_COMMITTED"}
                        -> "COMMIT"
                   [] m \in {"ROLLBACK_FROM_COORDINATOR", "TRANSACTION_ABORTED"}
                        -> "ABORT"
                   [] OTHER -> "WAITING"]_vars

\* C29: when the daemon of a site whose log records the participant role
\* leaves RECOVERY and its RM lists tid as prepared, a participant thread for
\* tid exists, is in PREPARED and holds an open channel to the logged
\* coordinator.
C29_RecoverySpawnsLoggedRole ==
    [][\A p \in Parts :
         (/\ pmstate[p] = "RECOVERY" /\ pmstate'[p] # "RECOVERY"
          /\ ListedPrepared(p))
         => (/\ child'[p]
             /\ pstate'[p] = "PREPARED"
             /\ psock'[p] = "open"
             /\ conn'[p] = "thread")]_vars

\* C30: in every site's log P comes after I and before any C or A, and at
\* the step in which a participant sends PREPARED_FROM_PARTICIPANT its log
\* holds P.
C30_PreparedLoggedBeforeVote ==
    [][/\ \A s \in Sites : \A i \in 1..Len(log'[s]) :
            log'[s][i] = "P" =>
               /\ \E j \in 1..(i - 1) : log'[s][j] = "I"
               /\ \A j \in 1..(i - 1) : log'[s][j] \notin {"C", "A"}
       /\ \A p \in Parts :
            (/\ Len(p2c'[p]) = Len(p2c[p]) + 1
             /\ Last(p2c'[p]) = "PREPARED_FROM_PARTICIPANT")
            => Has(log'[p], "P")]_vars

C32_ParticipantLoggedAndInitiatedOnce ==
    [][origin' = "client" =>
         \A p \in Parts :
            /\ csock'[p] # "none" => p \in rows'
            /\ (csock[p] = "none" /\ csock'[p] # "none")
                  => (c2p'[p] # <<>> /\ Head(c2p'[p]) = "INITIATE_PARTICIPANT")
            /\ (csock[p] # "none" /\ Len(c2p'[p]) > Len(c2p[p]))
                  => Last(c2p'[p]) # "INITIATE_PARTICIPANT"]_vars

\* C33: the daemon of site 0 moves from ACTIVE to FINISHED only in a step in
\* which it read SHUTDOWN; a step in which it read NO_OP or an op code outside
\* the dispatch table leaves it ACTIVE with child_threads unchanged; and the
\* step that reaches FINISHED changes no variable of the coordinator thread or
\* of a participant thread.
C33_ShutdownOnly ==
    [][/\ (mstate = "ACTIVE" /\ mstate' = "FINISHED")
            => /\ Len(accepted') = Len(accepted) + 1
               /\ Last(accepted') = "SHUTDOWN"
               /\ coordVars' = coordVars
               /\ partVars' = partVars
               /\ child' = child
       /\ (/\ mstate = "ACTIVE" /\ Len(accepted') = Len(accepted) + 1
           /\ Last(accepted') \in {"NO_OP", "PREPARE_TO_COMMIT"})
            => (mstate' = "ACTIVE" /\ child' = child)]_vars

C33_Witness ==
    /\ mstate = "FINISHED"
    /\ accepted # <<>> /\ Last(accepted) = "SHUTDOWN"
    /\ child[0] /\ cstate = "POLLING"

\* C34: a participant that has entered WAITING and closed its socket leaves
\* the wait only with a channel injected after that entry: whenever it is in
\* WAITING past the close with is_socket_changed set, its socket is open.
C34_WaitEndsOnFreshChannel ==
    \A p \in Parts :
       (pstate[p] = "WAITING" /\ wphase[p] = "blocked" /\ changed[p])
          => psock[p] = "open"

\* C35: the daemon of site p hands the connection of a decision message to an
\* existing participant thread only while that thread is in WAITING.
C35_InjectOnlyInWaiting ==
    [][\A p \in Parts :
         (/\ child[p]
          /\ conn[p] = "listen" /\ conn'[p] = "thread"
          /\ c2p[p] # <<>>
          /\ Head(c2p[p]) \in {"COMMIT_FROM_COORDINATOR",
                               "ROLLBACK_FROM_COORDINATOR"})
         => pstate[p] = "WAITING"]_vars

\* C36: a send or read that fails on a participant's socket while the
\* coordinator polls or multicasts closes that socket only and leaves the
\* coordinator's client socket as it was; a null read on a connection the
\* daemon accepted leaves the daemon's listening socket open.
C36_FailureClosesOnlyThatSocket ==
    [][/\ \A p \in Parts :
            (/\ cstate \in {"POLLING", "COMMIT", "ABORT", "WAITING"}
             /\ csock[p] = "open" /\ csock'[p] = "closed")
            => clientSock' = clientSock
       /\ (/\ mstate = "ACTIVE" /\ Len(accepted') = Len(accepted) + 1
           /\ Last(accepted') = "None")
            => lsock' = lsock]_vars

\* C37: every site's log holds each of the records I, C, A and D of the
\* transaction at most once.
C37_EachRecordOnce ==
    \A s \in Sites : \A x \in {"I", "C", "A", "D"} : Count(log[s], x) <= 1

\* C38: a site holds at most one live state machine for the transaction: when
\* the dispatcher handles INITIATE_PARTICIPANT while the participant thread
\* of the transaction is still running, that thread and its socket stay as
\* they are and no new thread takes its place.
C38_OneLiveStateMachine ==
    [][\A p \in Parts :
          (/\ child[p]
           /\ pstate[p] \notin {"NONE", "FINISHED"}
           /\ conn[p] = "listen"
           /\ c2p[p] # <<>>
           /\ Head(c2p[p]) = "INITIATE_PARTICIPANT"
           /\ conn'[p] # "listen")
          => /\ pstate'[p] = pstate[p]
             /\ psock'[p] = psock[p]
             /\ edge'[p] = edge[p]]_vars

\* C39: the daemon of a site always leaves RECOVERY for INITIALIZE, whether
\* or not the coordinator its log records accepts the connection.
C39_RecoveryEndsInInitialize ==
    [][\A p \in Parts :
          (pmstate[p] = "RECOVERY" /\ pmstate'[p] # "RECOVERY")
          => pmstate'[p] = "INITIALIZE"]_vars

\* C40: when the read on an accepted connection returns nothing, the daemon
\* stays ACTIVE with its listening socket open, and starts no thread.
C40_NullReadKeepsDaemonActive ==
    [][(/\ mstate = "ACTIVE"
        /\ Len(accepted') = Len(accepted) + 1
        /\ Last(accepted') = "None")
       => (/\ mstate' = "ACTIVE"
           /\ lsock' = "open"
           /\ child' = child)]_vars

====
